---- MODULE Spec2Model ----
(***************************************************************************)
(* The R.I.S. 2CVRT live-timing scraper: the XML-first service of          *)
(* src/src/livetiming/ris2cvrt.py ("main") and the HTML-only plugin of     *)
(* src/src/livetiming/service/plugins/ris2cvrt.py ("plugin").              *)
(*                                                                         *)
(* A Python str is a sequence of one-character strings; a character        *)
(* outside ASCII is written "U+XXXX".  An Optional value is a sequence of  *)
(* length at most one: <<>> is None and <<v>> is the value v.  A lap time  *)
(* (a float number of seconds in the source) is an integer number of       *)
(* milliseconds.  Python's 0-based positions are 1-based here and the      *)
(* position None is 0.                                                     *)
(***************************************************************************)
EXTENDS Integers, Sequences, FiniteSets, TLC

None == <<>>

Some(v) == <<v>>

Range(s) == {s[i] : i \in 1..Len(s)}

(* ------------------------------ str methods --------------------------- *)

IsSpace(c) == c \in {" ", "\t", "\n"}

RECURSIVE LStrip(_)
LStrip(s) ==
    IF s # <<>> /\ IsSpace(Head(s)) THEN LStrip(Tail(s)) ELSE s

RECURSIVE RStrip(_)
RStrip(s) ==
    IF s # <<>> /\ IsSpace(s[Len(s)]) THEN RStrip(SubSeq(s, 1, Len(s) - 1)) ELSE s

Strip(s) == RStrip(LStrip(s))

\* re.sub(r'\s+', ' ', s): of every run of whitespace the first character
\* stays, as a space
CollapseSpaces(s) ==
    LET kept == SelectSeq([i \in 1..Len(s) |-> i],
                          LAMBDA i : \/ ~IsSpace(s[i])
                                     \/ i = 1
                                     \/ ~IsSpace(s[i - 1]))
    IN  [k \in 1..Len(kept) |->
            IF IsSpace(s[kept[k]]) THEN " " ELSE s[kept[k]]]

UpperChars == <<"A","B","C","D","E","F","G","H","I","J","K","L","M","N","O","P","Q","R","S","T","U","V","W","X","Y","Z">> \o <<"U+00C9">>

LowerChars == <<"a","b","c","d","e","f","g","h","i","j","k","l","m","n","o","p","q","r","s","t","u","v","w","x","y","z">> \o <<"U+00E9">>

LowerChar(c) ==
    IF \E i \in 1..Len(UpperChars) : UpperChars[i] = c
    THEN LowerChars[CHOOSE i \in 1..Len(UpperChars) : UpperChars[i] = c]
    ELSE c

Lower(s) == [i \in 1..Len(s) |-> LowerChar(s[i])]

\* sep.join(strs)
RECURSIVE Join(_, _)
Join(strs, sep) ==
    IF strs = <<>> THEN <<>>
    ELSE IF Len(strs) = 1 THEN strs[1]
    ELSE strs[1] \o sep \o Join(Tail(strs), sep)

\* sub in s
Contains(s, sub) ==
    \E i \in 0..(Len(s) - Len(sub)) : SubSeq(s, i + 1, i + Len(sub)) = sub

StartsWith(s, p) == Len(s) >= Len(p) /\ SubSeq(s, 1, Len(p)) = p

\* s.ljust(n, c)
RECURSIVE LJust(_, _, _)
LJust(s, n, c) == IF Len(s) >= n THEN s ELSE LJust(s \o <<c>>, n, c)

Digits == <<"0","1","2","3","4","5","6","7","8","9">>

IsDigit(c) == c \in Range(Digits)

AllDigits(s) == \A i \in 1..Len(s) : IsDigit(s[i])

DigitVal(c) == (CHOOSE i \in 1..10 : Digits[i] = c) - 1

\* int(s) of a string of decimal digits
RECURSIVE ToInt(_)
ToInt(s) ==
    IF s = <<>> THEN 0
    ELSE ToInt(SubSeq(s, 1, Len(s) - 1)) * 10 + DigitVal(s[Len(s)])

\* the positions of the characters of s that are in the set cs
Positions(s, cs) == {i \in 1..Len(s) : s[i] \in cs}

First(S) == CHOOSE i \in S : \A j \in S : i <= j

Last(S) == CHOOSE i \in S : \A j \in S : j <= i

(* --------------------------- _parse_lap_time -------------------------- *)

LapSentinels == {<<"-">>, <<"U+2014">>, <<"N","A">>, <<"N","/","A">>}

\* re.match(r'^(?:(\d+):)?(\d{1,2})(?:[.,](\d{1,3}))?$', t): the groups, or
\* None.  No digit is ':', '.' or ',', so the first ':' can only end group 1
\* and the first '.' or ',' after it can only start the fraction.
LapMatch(t) ==
    LET colons == Positions(t, {":"})
        ci == IF colons = {} THEN 0 ELSE First(colons)
        rest == SubSeq(t, ci + 1, Len(t))
        seps == Positions(rest, {".", ","})
        si == IF seps = {} THEN Len(rest) + 1 ELSE First(seps)
        g1 == SubSeq(t, 1, ci - 1)
        g2 == SubSeq(rest, 1, si - 1)
        g3 == SubSeq(rest, si + 1, Len(rest))
    IN  IF /\ (colons # {} => Len(g1) >= 1 /\ AllDigits(g1))
           /\ Len(g2) \in 1..2 /\ AllDigits(g2)
           /\ (seps # {} => Len(g3) \in 1..3 /\ AllDigits(g3))
        THEN Some([minutes |-> g1, seconds |-> g2, fraction |-> g3])
        ELSE None

\* a decimal numeral without its leading zeros
RECURSIVE Canon(_)
Canon(d) == IF d # <<>> /\ Head(d) = "0" THEN Canon(Tail(d)) ELSE d

\* a < b for two numerals without leading zeros
DecLess(a, b) ==
    \/ Len(a) < Len(b)
    \/ /\ Len(a) = Len(b)
       /\ \E i \in 1..Len(a) :
            /\ DigitVal(a[i]) < DigitVal(b[i])
            /\ \A j \in 1..(i - 1) : a[j] = b[j]

(* An int converts to float when it rounds to at most the largest double: *)
(* when it is below 2^1024 - 2^970.  That limit is 60 * FloatLimitDiv60 + *)
(* FloatLimitMod60.                                                      *)
FloatLimitDiv60 ==
    <<"2","9","9","6","1","5","5","2","2","4","7","7","0","5","2","6","3","4","6","5","6","2","1","4","9","5","2","3","4","2","1","7","2","3","5","8","4","6","6","5","5","6","8","8","7","8","5","0","0","6","3","0","4","4","8","9","3","6","2","2">>
    \o <<"9","6","4","9","6","7","4","0","8","2","8","0","4","8","7","9","4","1","2","5","1","5","7","7","7","4","8","3","6","3","2","9","5","9","7","8","6","7","8","4","9","3","8","8","3","8","1","0","6","9","4","4","8","8","1","4","6","5","1","8">>
    \o <<"2","4","4","2","5","9","2","4","6","4","1","9","9","0","0","6","7","1","0","5","1","0","9","5","8","1","4","4","5","2","5","0","9","7","0","1","1","3","6","5","1","4","8","3","6","6","6","7","8","4","7","3","0","6","1","2","7","1","2","3">>
    \o <<"0","9","1","4","0","9","6","9","6","1","8","5","8","8","6","2","7","4","1","2","6","2","1","7","1","1","6","7","8","3","0","9","2","6","1","8","9","4","4","9","3","2","7","0","4","7","3","8","1","9","1","3","6","6","4","3","4","7","2","4">>
    \o <<"8","9","4","1","2","5","4","8","7","8","6","5","1","2","3","6","1","4","0","7","3","9","4","2","5","1","7","8","4","0","5","7","1","1","8","5","9","3","2","8","3","2","5","1","3","4","8","8","4","0","4","8","0","0","2","9","6","5","0","6">>
    \o <<"9","5","7","4","9","6","3">>

FloatLimitMod60 == 12

\* minutes * 60 + seconds is an int too large to convert to float: the
\* OverflowError of int + float
IntTooLarge(minutes, seconds) ==
    IF seconds >= FloatLimitMod60
    THEN ~DecLess(Canon(minutes), FloatLimitDiv60)
    ELSE DecLess(FloatLimitDiv60, Canon(minutes))

\* the value in milliseconds, or None; raised when the call ends in the
\* OverflowError instead of returning
_parse_lap_time(txt) ==
    IF txt = <<>> THEN [raised |-> FALSE, value |-> None]
    ELSE LET t == Strip(txt)
             m == LapMatch(t)
         IN  IF t = <<>> \/ t \in LapSentinels
             THEN [raised |-> FALSE, value |-> None]
             ELSE IF m = None THEN [raised |-> FALSE, value |-> None]
             ELSE IF IntTooLarge(m[1].minutes, ToInt(m[1].seconds))
             THEN [raised |-> TRUE, value |-> None]
             ELSE LET minutes == ToInt(m[1].minutes)
                      seconds == ToInt(m[1].seconds)
                      millis == ToInt(LJust(IF m[1].fraction = <<>> THEN <<"0">>
                                            ELSE m[1].fraction, 3, "0"))
                  IN  [raised |-> FALSE,
                       value |-> Some(minutes * 60000 + seconds * 1000
                                      + millis)]

(* ------------------------------ HTML page ----------------------------- *)
(* BeautifulSoup(html, 'html.parser'): a document is the sequence of its   *)
(* tables in document order, a table the sequence of its rows (tr), a row  *)
(* the sequence of its cells, a cell [tag: "th" or "td", strings: the      *)
(* text nodes under it in document order].                                 *)

Cell(tag, strings) == [tag |-> tag, strings |-> strings]

\* el.get_text(separator=' ', strip=True): the stripped, non-empty strings
GetText(el) ==
    Join(SelectSeq([i \in 1..Len(el.strings) |-> Strip(el.strings[i])],
                   LAMBDA s : s # <<>>), <<" ">>)

_text(el) == Strip(CollapseSpaces(GetText(el)))

\* tr.find_all(tag)
FindAll(tr, tag) == SelectSeq(tr, LAMBDA c : c.tag = tag)

\* candidate.find_all(['th', 'td']): every cell of the table, in order
RECURSIVE TableCells(_)
TableCells(table) ==
    IF table = <<>> THEN <<>> ELSE Head(table) \o TableCells(Tail(table))

TableKeywords == <<<<"p","o","s">>, <<"n","o","w">>, <<"n","u","m">>, <<"t","e","a","m">>, <<"d","r","i","v","e","r","s">>, <<"b","e","s","t">>, <<"l","a","s","t">>>>

HeadTxt(candidate) ==
    LET headers == TableCells(candidate)
        n == IF Len(headers) < 15 THEN Len(headers) ELSE 15
    IN  Join([i \in 1..n |-> Lower(_text(headers[i]))], <<" ">>)

\* the main live table: the first table with a typical RIS header, else the
\* first table, else None
FindTable(soup) ==
    LET hits == {i \in 1..Len(soup) :
                    \E k \in Range(TableKeywords) : Contains(HeadTxt(soup[i]), k)}
    IN  IF hits # {} THEN Some(soup[First(hits)])
        ELSE IF soup # <<>> THEN Some(soup[1])
        ELSE None

HeaderLabels == {<<"p","o","s">>, <<"n","o","w">>, <<"n","u","m">>, <<"#">>, <<"t","e","a","m">>, <<"d","r","i","v","e","r","s">>, <<"l","a","s","t">>,
                 <<"b","e","s","t">>, <<"b","e","s","t"," ","t","i","m","e">>}

\* the position in the table of the first row that looks like headers, or 0
HeaderRow(table) ==
    LET looks(tr) ==
            LET ths == FindAll(tr, "th")
                tds == FindAll(tr, "td")
                cells == IF ths # <<>> THEN ths ELSE tds
                labels == {Lower(_text(cells[i])) : i \in 1..Len(cells)}
            IN  labels \cap HeaderLabels # {}
        hits == {i \in 1..Len(table) : looks(table[i])}
    IN  IF hits = {} THEN 0 ELSE First(hits)

\* idx(*alts): the position of the first accepted synonym among the labels
RECURSIVE idx(_, _)
idx(alts, labels) ==
    IF alts = <<>> THEN 0
    ELSE IF Head(alts) \in Range(labels)
         THEN First({i \in 1..Len(labels) : labels[i] = Head(alts)})
         ELSE idx(Tail(alts), labels)

DriversAlts == <<<<"d","r","i","v","e","r","s">>, <<"d","r","i","v","e","r">>, <<"p","i","l","o","t","e">>, <<"p","i","l","o","t","e","s">>>>

col_idx(header_row) ==
    LET labels == [i \in 1..Len(header_row) |-> Lower(_text(header_row[i]))]
    IN  [pos     |-> idx(<<<<"p","o","s">>, <<"p","o","s","i","t","i","o","n">>>>, labels),
         state   |-> idx(<<<<"n","o","w">>, <<"s","t","a","t","e">>, <<"s","t","a","t","u","s">>>>, labels),
         num     |-> idx(<<<<"n","u","m">>, <<"#">>, <<"c","a","r">>, <<"n","U+00B0">>, <<"n","U+00BA">>>>, labels),
         team    |-> idx(<<<<"t","e","a","m">>, <<"n","a","m","e">>>>, labels),
         drivers |-> idx(DriversAlts, labels),
         last    |-> idx(<<<<"l","a","s","t">>, <<"l","a","s","t"," ","t","i","m","e">>, <<"l","a","s","t"," ","l","a","p">>, <<"d","e","r","n","i","e","r">>,
                           <<"d","e","r","n","i","e","r"," ","t","o","u","r">>>>, labels),
         best    |-> idx(<<<<"b","e","s","t">>, <<"b","e","s","t"," ","t","i","m","e">>, <<"b","e","s","t"," ","l","a","p">>, <<"m","e","i","l","l","e","u","r">>,
                           <<"m","e","i","l","l","e","u","r"," ","t","o","u","r">>>>, labels),
         lap     |-> idx(<<<<"l","a","p">>, <<"l","a","p","s">>, <<"t","o","u","r">>, <<"t","o","u","r","s">>>>, labels),
         gap     |-> idx(<<<<"g","a","p">>, <<"e","c","a","r","t">>, <<"U+00E9","c","a","r","t">>>>, labels)]

\* get(idx_name) of a data row's td cells
get(i, tds) == IF i # 0 /\ i <= Len(tds) THEN _text(tds[i]) ELSE <<>>

\* a or b, of two strs
StrOr(a, b) == IF a # <<>> THEN a ELSE b

CarRow(num, state, driver, last_raw, best_raw) ==
    [num      |-> num,
     state    |-> state,
     driver   |-> driver,
     last_lap |-> _parse_lap_time(last_raw).value,
     best_lap |-> _parse_lap_time(best_raw).value]

\* the row built from the td cells of one data row
HtmlRow(col, tds) ==
    CarRow(get(col.num, tds), StrOr(get(col.state, tds), <<>>),
           StrOr(get(col.team, tds), get(col.drivers, tds)),
           get(col.last, tds), get(col.best, tds))

\* the data row is kept: it has td cells and its car number is not empty
HtmlKeep(col, tds) == tds # <<>> /\ get(col.num, tds) # <<>>

\* building the row of the td cells raises: one of its two lap times does
HtmlRowRaises(col, tds) ==
    \/ _parse_lap_time(get(col.last, tds)).raised
    \/ _parse_lap_time(get(col.best, tds)).raised

\* the rows scraped from the table: those after the header row
HtmlCars(table) ==
    LET h == HeaderRow(table)
        col == col_idx(table[h])
        data == [i \in 1..(Len(table) - h) |-> FindAll(table[h + i], "td")]
        kept == SelectSeq(data, LAMBDA tds : HtmlKeep(col, tds))
    IN  IF h = 0 THEN <<>>
        ELSE [i \in 1..Len(kept) |-> HtmlRow(col, kept[i])]

\* scraping the table raises: building one of its kept rows does, and the
\* rows appended before it are lost with the cycle
HtmlCarsRaise(table) ==
    LET h == HeaderRow(table)
        col == col_idx(table[h])
    IN  /\ h # 0
        /\ \E i \in (h + 1)..Len(table) :
              /\ HtmlKeep(col, FindAll(table[i], "td"))
              /\ HtmlRowRaises(col, FindAll(table[i], "td"))

(* ------------------------------ XML feed ------------------------------ *)
(* An ElementTree element is [tag, text, children]; a text of None is the  *)
(* empty str (every use in the source is "text or ''").                    *)

Elem(tag, text, children) == [tag |-> tag, text |-> text, children |-> children]

\* every element below e, in document order
RECURSIVE Descendants(_), DescendantsOfAll(_)
Descendants(e) == DescendantsOfAll(e.children)

DescendantsOfAll(es) ==
    IF es = <<>> THEN <<>>
    ELSE <<Head(es)>> \o Descendants(Head(es)) \o DescendantsOfAll(Tail(es))

\* root.findall('.//tag')
findall(root, tag) == SelectSeq(Descendants(root), LAMBDA e : e.tag = tag)

\* e.find(tag): the first child of that tag, or None
find(e, tag) ==
    LET hits == SelectSeq(e.children, LAMBDA c : c.tag = tag)
    IN  IF hits = <<>> THEN None ELSE Some(hits[1])

\* e.find('.//tag'): the first element of that tag below e, or None
findDeep(e, tag) ==
    LET hits == findall(e, tag)
    IN  IF hits = <<>> THEN None ELSE Some(hits[1])

\* e.findtext(tag): the text of the first child of that tag, or None
findtext(e, tag) ==
    LET c == find(e, tag) IN IF c = None THEN None ELSE Some(c[1].text)

\* a or b, of two Optional strs: the first that is neither None nor ''
OptOr(a, b) == IF a # None /\ a[1] # <<>> THEN a ELSE b

\* (a or b or '').strip()
OrEmpty(a, b) ==
    LET v == OptOr(OptOr(a, b), Some(<<>>)) IN Strip(v[1])

\* s.split(sep)
RECURSIVE Split(_, _)
Split(s, sep) ==
    LET at == Positions(s, {sep})
    IN  IF at = {} THEN <<s>>
        ELSE <<SubSeq(s, 1, First(at) - 1)>>
             \o Split(SubSeq(s, First(at) + 1, Len(s)), sep)

\* int(p) succeeds: p is decimal digits, possibly within whitespace
IsInt(p) == Strip(p) # <<>> /\ AllDigits(Strip(p))

\* remain as HH:MM:SS, MM:SS or seconds; None on any other text
ParseRemain(remain_txt) ==
    LET parts == Split(remain_txt, ":")
        n(i) == ToInt(Strip(parts[i]))
    IN  IF remain_txt = <<>> THEN None
        ELSE IF \E i \in 1..Len(parts) : ~IsInt(parts[i]) THEN None
        ELSE IF Len(parts) = 3 THEN Some(n(1) * 3600 + n(2) * 60 + n(3))
        ELSE IF Len(parts) = 2 THEN Some(n(1) * 60 + n(2))
        ELSE IF Len(parts) = 1 THEN Some(n(1))
        ELSE None

NoMeta == [session_name |-> None, flag |-> None, remaining |-> None]

\* root.find('.//lineinfo') or root.find('lineinfo'): an element without
\* children is falsy
LineInfo(root) ==
    LET deep == findDeep(root, <<"l","i","n","e","i","n","f","o">>)
    IN  IF deep # None /\ deep[1].children # <<>> THEN deep
        ELSE find(root, <<"l","i","n","e","i","n","f","o">>)

\* session meta of <lineinfo>
SessionMeta(root) ==
    LET lineinfo == LineInfo(root)
        li == lineinfo[1]
    IN  IF lineinfo = None THEN NoMeta
        ELSE [session_name |->
                 Some(OrEmpty(findtext(li, <<"s","e","a","n","c","e">>), findtext(li, <<"r","a","c","e">>))),
              flag |->
                 Some(OrEmpty(findtext(li, <<"m","e","s","s","a","g","e","D","C","2">>),
                              findtext(li, <<"m","e","s","s","a","g","e","D","C","1">>))),
              remaining |->
                 ParseRemain(OrEmpty(findtext(li, <<"r","e","m","a","i","n">>), None))]

CarTags == <<<<"l","i","g","n","e">>, <<"l","i","n","e">>, <<"c","a","r">>, <<"r","o","w">>, <<"i","t","e","m">>>>

RECURSIVE CarNodes(_, _)
CarNodes(root, tags) ==
    IF tags = <<>> THEN <<>>
    ELSE findall(root, Head(tags)) \o CarNodes(root, Tail(tags))

\* children.get(a) of the dict built from the node's children: the stripped
\* text of the last child whose lower-cased tag is a, or None
ChildText(node, a) ==
    LET hits == {i \in 1..Len(node.children) : Lower(node.children[i].tag) = a}
    IN  IF hits = {} THEN None ELSE Some(Strip(node.children[Last(hits)].text))

\* cget(*alts): the first non-empty value among the alternatives, or ''
RECURSIVE cget(_, _)
cget(node, alts) ==
    IF alts = <<>> THEN <<>>
    ELSE LET v == ChildText(node, Head(alts))
         IN  IF v # None /\ v[1] # <<>> THEN v[1] ELSE cget(node, Tail(alts))

NumTags == <<<<"n","u","m">>, <<"n","u","m","b","e","r">>, <<"c","a","r">>, <<"#">>, <<"n">>, <<"n","U+00B0">>, <<"n","U+00BA">>>>

XmlNum(node) == cget(node, NumTags)

XmlRow(node) ==
    CarRow(XmlNum(node),
           StrOr(cget(node, <<<<"s","t","a","t","e">>, <<"n","o","w">>, <<"s","t","a","t","u","s">>>>), <<>>),
           cget(node, <<<<"t","e","a","m">>, <<"d","r","i","v","e","r","s">>, <<"d","r","i","v","e","r">>, <<"p","i","l","o","t","e">>>>),
           cget(node, <<<<"l","a","s","t">>, <<"l","a","s","t","l","a","p">>, <<"l","a","s","t","_","t","i","m","e">>, <<"d","e","r","n","i","e","r">>>>),
           cget(node, <<<<"b","e","s","t">>, <<"b","e","s","t","l","a","p">>, <<"b","e","s","t","_","t","i","m","e">>, <<"m","e","i","l","l","e","u","r">>>>))

\* building the row of a car node raises: one of its two lap times does
XmlRowRaises(node) ==
    \/ _parse_lap_time(cget(node, <<<<"l","a","s","t">>, <<"l","a","s","t","l","a","p">>, <<"l","a","s","t","_","t","i","m","e">>,
                                    <<"d","e","r","n","i","e","r">>>>)).raised
    \/ _parse_lap_time(cget(node, <<<<"b","e","s","t">>, <<"b","e","s","t","l","a","p">>, <<"b","e","s","t","_","t","i","m","e">>,
                                    <<"m","e","i","l","l","e","u","r">>>>)).raised

\* the rows of the car nodes whose number is not empty; an exception while
\* building any row, kept or not, empties cars
XmlCars(root) ==
    LET nodes == CarNodes(root, CarTags)
        kept == SelectSeq(nodes, LAMBDA n : XmlNum(n) # <<>>)
    IN  IF \E i \in 1..Len(nodes) : XmlRowRaises(nodes[i]) THEN <<>>
        ELSE [i \in 1..Len(kept) |-> XmlRow(kept[i])]

(* -------------------------------- fetches ----------------------------- *)

DATA_SOURCE_URL == <<"h","t","t","p","s",":","/","/","r","e","s","u","l","t","s",".","r","i","s","-","t","i","m","i","n","g",".","b","e","/","2","c","v","r","t","/","l","i","v","e","/","l","i","v","e","2","0","2","5",".","h","t","m">>

\* s.rsplit(sep, 1)[0]
RSplitHead(s, sep) ==
    LET at == Positions(s, {sep})
    IN  IF at = {} THEN s ELSE SubSeq(s, 1, Last(at) - 1)

\* s.rsplit(sep, 1)[-1]
RSplitTail(s, sep) ==
    LET at == Positions(s, {sep})
    IN  IF at = {} THEN s ELSE SubSeq(s, Last(at) + 1, Len(s))

\* s.replace(old, new), old not empty
RECURSIVE Replace(_, _, _)
Replace(s, old, new) ==
    IF Len(s) < Len(old) THEN s
    ELSE IF SubSeq(s, 1, Len(old)) = old
         THEN new \o Replace(SubSeq(s, Len(old) + 1, Len(s)), old, new)
         ELSE <<Head(s)>> \o Replace(Tail(s), old, new)

\* the derived XML locations, in the order they are tried
Candidates(url) ==
    LET base_no_ext == RSplitHead(url, ".")
        filename == RSplitTail(url, "/")
    IN  <<base_no_ext \o <<".","x","m","l">>>>
        \o (IF "." \in Range(filename)
            THEN <<Replace(url, filename, RSplitHead(filename, ".") \o <<".","x","m","l">>)>>
            ELSE <<>>)

XML_TIMEOUT == 5

HTML_TIMEOUT == 10

Request(url, timeout) == [url |-> url, timeout |-> timeout]

(* What the network answers to one requests.get: kind "error" is an         *)
(* exception (connection error, timeout), kind "response" a response with  *)
(* its status code and body, kind "unrequested" a request never issued.    *)
(* A body is the name of a document the server holds (XmlFeed, HtmlPage,   *)
(* below): of an XML text [head: its first characters, wf: the rest is     *)
(* well-formed, root: the tree it then parses to], or of an HTML document. *)

XmlText(head, wf, root) == [head |-> head, wf |-> wf, root |-> root]

Td(s) == Cell("td", <<s>>)

Th(s) == Cell("th", <<s>>)

HeaderEn == <<Th(<<"P","o","s">>), Th(<<"N","u","m">>), Th(<<"T","e","a","m">>), Th(<<"D","r","i","v","e","r","s">>), Th(<<"L","a","s","t">>),
              Th(<<"B","e","s","t">>)>>

RowAlpha == <<Td(<<"1">>), Td(<<"1","2">>), Td(<<"A","l","p","h","a">>), Td(<<"A","n","n">>), Td(<<"1",":","2","3",".","4","5","6">>),
              Td(<<"1",":","2","2",".","9">>)>>

\* no car number, every other field populated
RowNoNum == <<Td(<<"2">>), Td(<<" ">>), Td(<<"B","e","t","a">>), Td(<<"B","o","b">>), Td(<<"2","3",",","4">>), Td(<<"-">>)>>

\* the number within whitespace and nested markup, no team
RowNested == <<Td(<<"3">>), Cell("td", <<<<" ","\n">>, <<"7"," ">>>>), Td(<<>>),
               Cell("td", <<<<" "," ","C","y","\n">>, <<"\t","D","e","e"," "," ">>>>), Td(<<"D","N","F">>), Td(<<"N","/","A">>)>>

\* a last lap of as many minutes as take it to the float limit
RowHuge == <<Td(<<"4">>), Td(<<"4","4">>), Td(<<"G","a","m","m","a">>), Td(<<"G","u","s">>),
             Td(FloatLimitDiv60 \o <<":","1","2">>), Td(<<"1",":","2","2",".","9">>)>>

LayoutTable == <<<<Td(<<"W","e","l","c","o","m","e">>)>>>>

\* the HTML documents the server may answer with, by name
HtmlPage ==
    [empty  |-> <<>>,
     layout |-> <<LayoutTable>>,
     one    |-> <<<<HeaderEn, RowAlpha>>>>,
     nonum  |-> <<<<HeaderEn, RowNoNum>>>>,
     mixed  |-> <<<<HeaderEn, RowAlpha, RowNoNum, RowNested>>>>,
     second |-> <<LayoutTable, <<HeaderEn, RowNested>>>>,
     huge   |-> <<<<HeaderEn, RowAlpha, RowHuge>>>>]

Leaf(tag, text) == Elem(tag, text, <<>>)

NodeAlpha ==
    Elem(<<"l","i","g","n","e">>, <<>>, <<Leaf(<<"N","u","m">>, <<"1","2">>), Leaf(<<"t","e","a","m">>, <<" ","A","l","p","h","a"," ">>),
                           Leaf(<<"l","a","s","t">>, <<"1",":","2","3",".","4","5","6">>), Leaf(<<"b","e","s","t">>, <<"1",":","2","2",".","9">>)>>)

\* no car number, other fields populated
NodeNoNum == Elem(<<"l","i","g","n","e">>, <<>>, <<Leaf(<<"n","u","m">>, <<>>), Leaf(<<"t","e","a","m">>, <<"B","e","t","a">>)>>)

RootFull ==
    Elem(<<"l","i","v","e">>, <<>>,
         <<Elem(<<"l","i","n","e","i","n","f","o">>, <<>>, <<Leaf(<<"s","e","a","n","c","e">>, <<"R","a","c","e">>),
                                     Leaf(<<"m","e","s","s","a","g","e","D","C","2">>, <<"G","R","E","E","N">>),
                                     Leaf(<<"r","e","m","a","i","n">>, <<"1",":","0","2",":","0","3">>)>>),
           NodeAlpha, NodeNoNum>>)

\* session meta only
RootMeta ==
    Elem(<<"l","i","v","e">>, <<>>,
         <<Elem(<<"l","i","n","e","i","n","f","o">>, <<>>, <<Leaf(<<"r","a","c","e">>, <<"Q","1">>),
                                     Leaf(<<"m","e","s","s","a","g","e","D","C","1">>, <<"R","E","D">>),
                                     Leaf(<<"r","e","m","a","i","n">>, <<"9","0">>)>>)>>)

\* an unexpected schema
RootOdd == Elem(<<"f","e","e","d">>, <<>>, <<Leaf(<<"s","t","a","t","u","s">>, <<"o","k">>)>>)

\* the texts the server may answer an XML candidate with, by name
XmlFeed ==
    [blank     |-> XmlText(<<>>, FALSE, RootOdd),
     html      |-> XmlText(<<"<","h","t","m","l">>, FALSE, RootOdd),
     full      |-> XmlText(<<"<","?","x","m","l">>, TRUE, RootFull),
     meta      |-> XmlText(<<"<","?","x","m","l">>, TRUE, RootMeta),
     odd       |-> XmlText(<<"<","?","x","m","l">>, TRUE, RootOdd),
     malformed |-> XmlText(<<"<","?","x","m","l">>, FALSE, RootOdd),
     indented  |-> XmlText(<<"\n","<","?","x","m","l">>, TRUE, RootFull)]

\* xr.status_code == 200 and xr.text and xr.text.lstrip().startswith('<?xml')
Accepted(xr) ==
    /\ xr.kind = "response"
    /\ xr.status = 200
    /\ XmlFeed[xr.text].head # <<>>
    /\ StartsWith(LStrip(XmlFeed[xr.text].head), <<"<","?","x","m","l">>)

\* the candidate loop with "break" where the source has "continue": a
\* failed request ends the loop
RECURSIVE TryCandidatesStopOnError(_, _)
TryCandidatesStopOnError(candidates, xs) ==
    IF candidates = <<>> THEN [xml_text |-> None, log |-> <<>>]
    ELSE LET req == Request(Head(candidates), XML_TIMEOUT)
             rest == TryCandidatesStopOnError(Tail(candidates), Tail(xs))
         IN  IF Head(xs).kind = "error"
             THEN [xml_text |-> None, log |-> <<req>>]
             ELSE IF Accepted(Head(xs))
             THEN [xml_text |-> Some(Head(xs).text), log |-> <<req>>]
             ELSE [xml_text |-> rest.xml_text, log |-> <<req>> \o rest.log]

\* the candidate loop: the accepted text, or None, and the requests issued
RECURSIVE TryCandidates(_, _)
TryCandidates(candidates, xs) ==
    IF candidates = <<>> THEN [xml_text |-> None, log |-> <<>>]
    ELSE LET req == Request(Head(candidates), XML_TIMEOUT)
             rest == TryCandidates(Tail(candidates), Tail(xs))
         IN  IF Accepted(Head(xs))
             THEN [xml_text |-> Some(Head(xs).text), log |-> <<req>>]
             ELSE [xml_text |-> rest.xml_text, log |-> <<req>> \o rest.log]

\* ET.fromstring(xml_text): the root, or None for a ParseError; expat wants
\* the XML declaration at the very start of the text
fromstring(xml_text) ==
    IF StartsWith(xml_text.head, <<"<","?","x","m","l">>) /\ xml_text.wf
    THEN Some(xml_text.root)
    ELSE None

\* the except branch of the XML parse: xml_text = None
OnParseError(xml_text) == None

\* raise_for_status raising for server errors only
raise_for_status_5xx(status) == 500 <= status /\ status < 600

\* r.raise_for_status() raises: a 4xx or 5xx status
raise_for_status(status) == 400 <= status /\ status < 600

\* the HTML GET of the try block succeeds
HtmlFetched(r) == r.kind = "response" /\ ~raise_for_status(r.status)

(* Each document is parsed and scraped once, here, and looked up by name   *)
(* in the calls.                                                           *)

\* url, and the XML locations derived from it
XmlUrls == Candidates(DATA_SOURCE_URL)

\* the root of each XML text, or None
Root == [x \in DOMAIN XmlFeed |-> fromstring(XmlFeed[x])]

\* the session meta of each XML text that parses
LineInfoMeta == [x \in DOMAIN XmlFeed |->
                    IF Root[x] = None THEN NoMeta ELSE SessionMeta(Root[x][1])]

\* the car rows of each XML text that parses
XmlRows == [x \in DOMAIN XmlFeed |->
               IF Root[x] = None THEN <<>> ELSE XmlCars(Root[x][1])]

\* the rows appended from the located table
TableCars(table) == IF table = None THEN <<>> ELSE HtmlCars(table[1])

\* scraping the located table raises
TableRaises(table) == table # None /\ HtmlCarsRaise(table[1])

\* the HTML documents whose main live table cannot be scraped
HtmlOverflow == [d \in DOMAIN HtmlPage |-> TableRaises(FindTable(HtmlPage[d]))]

\* the rows of the main live table of each HTML document that can be scraped
HtmlRows == [d \in DOMAIN HtmlPage |->
                IF HtmlOverflow[d] THEN <<>>
                ELSE TableCars(FindTable(HtmlPage[d]))]

(* ------------------------------ the service --------------------------- *)

\* Service.__init__
NewService ==
    [_last_fetch_ok     |-> FALSE,
     _last_session_name |-> None,
     _last_flag         |-> None,
     _last_remaining    |-> None]

\* the session dict with the clock written to 'remaining' as well
SessionClock(name, flag, remaining, clock, source_ok) ==
    [name      |-> name,
     flag      |-> flag,
     remaining |-> Some(clock),
     clock     |-> clock,
     source_ok |-> source_ok]

Session(name, flag, remaining, clock, source_ok) ==
    [name      |-> name,
     flag      |-> flag,
     remaining |-> remaining,
     clock     |-> clock,
     source_ok |-> source_ok]

\* the RaceState the service returns from its cache
RaceState(self, cars, clock, source_ok) ==
    [cars    |-> cars,
     session |-> Session(OptOr(self._last_session_name, Some(<<"2","C","V","R","T">>))[1],
                         OptOr(self._last_flag, Some(<<>>))[1],
                         self._last_remaining, clock, source_ok)]

Return(value) == [kind |-> "return", value |-> value]

Raise(exc) == [kind |-> "raise", exc |-> exc]

\* keep last known values in case the banner/session is sparse
UpdateCache(self, meta) ==
    [self EXCEPT
        !._last_session_name = OptOr(meta.session_name, @),
        !._last_flag = OptOr(meta.flag, @),
        !._last_remaining = IF meta.remaining # None THEN meta.remaining ELSE @]

\* a soup that is None searched as a document without tables
find_all_tables_lenient(soup) ==
    IF soup = None THEN Some("empty") ELSE Some(soup[1])

\* soup.find_all('table') of the soup of a document: the document's tables,
\* or None for the AttributeError of a soup that is None
find_all_tables(soup) == IF soup = None THEN None ELSE Some(soup[1])

\* cars kept across cycles instead of starting empty
NewCarsKept(earlier) == earlier

\* cars: List[Dict] = [], whatever an earlier cycle emitted
NewCars(earlier) == <<>>

\* what one call of getRaceState leaves behind: the returned state or the
\* raised exception (ret), the service afterwards (self), the requests issued
\* (log), the session meta the cycle extracted (cur) and the paths that
\* appended car rows (contrib)
Outcome(ret, self, log, cur, contrib) ==
    [ret |-> ret, self |-> self, log |-> log, cur |-> cur,
     contrib |-> contrib]

\* the payload of a cycle that got a document: cache update and return
BuildPayload(self, log, meta, xml_cars, html_cars, cars, clock) ==
    Outcome(Return(RaceState(UpdateCache(self, meta), cars, clock, TRUE)),
            UpdateCache(self, meta), log, meta,
            (IF xml_cars # <<>> THEN {"xml"} ELSE {})
                \cup (IF html_cars # <<>> THEN {"html"} ELSE {}))

\* locate the timing table and fill cars: the XML rows first, the HTML rows
\* only if cars is still empty
LocateTable(self, log, meta, tables, cars0, xml_cars, clock) ==
    IF tables = None
    THEN Outcome(Raise("AttributeError"), self, log, meta, {})
    ELSE IF cars0 \o xml_cars = <<>> /\ HtmlOverflow[tables[1]]
    THEN Outcome(Raise("OverflowError"), self, log, meta, {})
    ELSE BuildPayload(self, log, meta, xml_cars,
                      IF cars0 \o xml_cars = <<>> THEN HtmlRows[tables[1]]
                      ELSE <<>>,
                      (cars0 \o xml_cars)
                          \o (IF cars0 \o xml_cars = <<>>
                              THEN HtmlRows[tables[1]] ELSE <<>>),
                      clock)

\* fall back to HTML if the XML is not available, then build the soup and
\* read the session meta of the XML document
FetchHtml(self, log, xml_text, r, clock, earlier) ==
    IF xml_text = None /\ ~HtmlFetched(r)
    THEN Outcome(Return(RaceState(self, <<>>, clock, FALSE)),
                 [self EXCEPT !._last_fetch_ok = FALSE],
                 log \o <<Request(DATA_SOURCE_URL, HTML_TIMEOUT)>>,
                 NoMeta, {})
    ELSE IF xml_text = None
    THEN LocateTable([self EXCEPT !._last_fetch_ok = TRUE],
                     log \o <<Request(DATA_SOURCE_URL, HTML_TIMEOUT)>>,
                     NoMeta, find_all_tables(Some(r.doc)),
                     NewCars(earlier), <<>>, clock)
    ELSE LocateTable(self, log, LineInfoMeta[xml_text[1]],
                     find_all_tables(None),
                     NewCars(earlier), XmlRows[xml_text[1]], clock)

\* parse the XML text that was selected; a text that does not parse is
\* dropped, so a text that is kept has a root
ParseXml(self, sel, r, clock, earlier) ==
    FetchHtml(self, sel.log,
              IF sel.xml_text # None /\ Root[sel.xml_text[1]] = None
              THEN OnParseError(sel.xml_text)
              ELSE sel.xml_text,
              r, clock, earlier)

(* One call of getRaceState of the XML-first service: x1, x2 and r are the *)
(* network's answers to the two XML candidates and the HTML page.          *)
getRaceState(self, x1, x2, r, clock, earlier) ==
    ParseXml(self, TryCandidates(XmlUrls, <<x1, x2>>), r, clock, earlier)

\* the HTML-only plugin's cycle once the page is fetched
ScrapePlugin(self, log, html_cars, cars0, clock) ==
    Outcome(Return(RaceState(UpdateCache(self, NoMeta), cars0 \o html_cars,
                             clock, TRUE)),
            UpdateCache(self, NoMeta), log, NoMeta,
            IF html_cars # <<>> THEN {"html"} ELSE {})

(* One call of getRaceState of the HTML-only plugin.                       *)
getRaceStatePlugin(self, r, clock, earlier) ==
    IF ~HtmlFetched(r)
    THEN Outcome(Return(RaceState(self, <<>>, clock, FALSE)),
                 [self EXCEPT !._last_fetch_ok = FALSE],
                 <<Request(DATA_SOURCE_URL, HTML_TIMEOUT)>>, NoMeta, {})
    ELSE IF HtmlOverflow[r.doc]
    THEN Outcome(Raise("OverflowError"),
                 [self EXCEPT !._last_fetch_ok = TRUE],
                 <<Request(DATA_SOURCE_URL, HTML_TIMEOUT)>>, NoMeta, {})
    ELSE ScrapePlugin([self EXCEPT !._last_fetch_ok = TRUE],
                      <<Request(DATA_SOURCE_URL, HTML_TIMEOUT)>>,
                      HtmlRows[r.doc], NewCars(earlier), clock)

(* --------------------------- what the network answers ----------------- *)

HtmlResponse(kind, status, doc) == [kind |-> kind, status |-> status, doc |-> doc]

NoHtml == HtmlResponse("unrequested", 0, "empty")

HtmlResponses ==
    {HtmlResponse("error", 0, "empty")}
    \cup {HtmlResponse("response", s, "empty") : s \in {304, 404, 503}}
    \cup {HtmlResponse("response", 200, d) : d \in DOMAIN HtmlPage}

XmlResponse(kind, status, text) == [kind |-> kind, status |-> status, text |-> text]

NoXml == XmlResponse("unrequested", 0, "blank")

XmlResponses ==
    {XmlResponse("error", 0, "blank"), XmlResponse("response", 404, "full")}
    \cup {XmlResponse("response", 200, x) : x \in DOMAIN XmlFeed}

\* the answers to the second candidate, which is the URL of the first
SecondResponses ==
    {XmlResponse("error", 0, "blank")}
    \cup {XmlResponse("response", 200, x) : x \in {"html", "meta", "malformed"}}

MaxClock == 2

(* ------------------------------ state machine ------------------------- *)

VARIABLES
    module,   \* the module whose Service the host runs: "main" or "plugin"
    svc,      \* the service: the fields __init__ sets
    now,      \* time.time()
    net,      \* the latest call: the network's answers to its requests
    ret,      \* its outcome: the returned RaceState or the raised exception
    log,      \* the requests it issued, in order
    pre,      \* the service as it was before the call
    cur,      \* the session meta the call extracted from its document
    contrib,  \* the paths that appended car rows in the call
    repeat,   \* the call got the answers of the call before it
    lap,      \* the latest call of _parse_lap_time: its text and its outcome
    tab       \* a timing table and what is scraped from it under two headers

vars == <<module, svc, now, net, ret, log, pre, cur, contrib, repeat, lap, tab>>

Call(x1, x2, r) == [x1 |-> x1, x2 |-> x2, r |-> r]

IsHtmlRequest(q) == q.url = DATA_SOURCE_URL

XmlRequests(l) == SelectSeq(l, LAMBDA q : ~IsHtmlRequest(q))

HtmlRequests(l) == SelectSeq(l, IsHtmlRequest)

\* the cars of the RaceState returned last
Emitted == IF ret.kind = "return" THEN ret.value.cars ELSE <<>>

Init ==
    /\ module \in {"main", "plugin"}
    /\ svc = NewService
    /\ now = 0
    /\ net = Call(NoXml, NoXml, NoHtml)
    /\ ret = [kind |-> "none"]
    /\ log = <<>>
    /\ pre = NewService
    /\ cur = NoMeta
    /\ contrib = {}
    /\ repeat = FALSE
    /\ lap = [kind |-> "none"]
    /\ tab = [kind |-> "none"]

\* the answers a call consumed: an answer exists only for a request that
\* was issued
Consumed(call, issued) ==
    [x1 |-> call.x1,
     x2 |-> IF Len(XmlRequests(issued)) < 2 THEN NoXml ELSE call.x2,
     r  |-> IF HtmlRequests(issued) = <<>> THEN NoHtml ELSE call.r]

Effect(call, out) ==
    /\ svc' = out.self
    /\ net' = Consumed(call, out.log)
    /\ ret' = out.ret
    /\ log' = out.log
    /\ pre' = svc
    /\ cur' = out.cur
    /\ contrib' = out.contrib
    /\ repeat' = (ret.kind # "none" /\ Consumed(call, out.log) = net)
    /\ UNCHANGED <<module, now, lap, tab>>

\* the host polls the XML-first service
PollMain ==
    /\ module = "main"
    /\ \E x1 \in XmlResponses, x2 \in SecondResponses, r \in HtmlResponses :
        Effect(Call(x1, x2, r), getRaceState(svc, x1, x2, r, now, Emitted))

\* the host polls the HTML-only plugin
PollPlugin ==
    /\ module = "plugin"
    /\ \E r \in HtmlResponses :
        Effect(Call(NoXml, NoXml, r),
               getRaceStatePlugin(svc, r, now, Emitted))

\* time passes
Tick ==
    /\ now < MaxClock
    /\ now' = now + 1
    /\ UNCHANGED <<module, svc, net, ret, log, pre, cur, contrib, repeat, lap, tab>>

Next == PollMain \/ PollPlugin \/ Tick

Spec == Init /\ [][Next]_vars

(* -------------------------------- claims ------------------------------ *)

Called == ret.kind # "none"

Returned == ret.kind = "return"

Cars == ret.value.cars

Sess == ret.value.session

StickyFields(s) ==
    <<s._last_session_name, s._last_flag, s._last_remaining>>

\* the sticky fields a RaceState shows for a cache
Shown(s) ==
    <<IF s._last_session_name \in {None, Some(<<>>)} THEN <<"2","C","V","R","T">>
      ELSE s._last_session_name[1],
      IF s._last_flag = None THEN <<>> ELSE s._last_flag[1],
      s._last_remaining>>

StickyOf(v) == <<v.session.name, v.session.flag, v.session.remaining>>

WellFormed(v) ==
    /\ DOMAIN v = {"cars", "session"}
    /\ DOMAIN v.session = {"name", "flag", "remaining", "clock", "source_ok"}
    /\ v.session.source_ok \in BOOLEAN
    /\ v.session.clock \in Nat
    /\ Len(v.session.remaining) <= 1
    /\ \A i \in 1..Len(v.cars) :
          DOMAIN v.cars[i] = {"num", "state", "driver", "last_lap", "best_lap"}

\* the XML text the call accepted, or None
AcceptedText ==
    IF Accepted(net.x1) THEN Some(net.x1.text)
    ELSE IF Accepted(net.x2) THEN Some(net.x2.text)
    ELSE None

NoXmlAccepted == AcceptedText = None

XmlParsed == AcceptedText # None /\ Root[AcceptedText[1]] # None

XmlMalformed == AcceptedText # None /\ Root[AcceptedText[1]] = None

HtmlRaised == net.r.kind = "error"

HtmlStatusIn(S) == net.r.kind = "response" /\ net.r.status \in S

HtmlStatusNotIn(S) == net.r.kind = "response" /\ net.r.status \notin S

\* the rows of the documents the call was answered with
HtmlRowsOfCall == IF HtmlStatusNotIn(400..599) THEN HtmlRows[net.r.doc] ELSE <<>>

XmlRowsOfCall == IF XmlParsed THEN XmlRows[AcceptedText[1]] ELSE <<>>

TotalFailureOutcome ==
    /\ Returned
    /\ Cars = <<>>
    /\ Sess.source_ok = FALSE
    /\ StickyOf(ret.value) = Shown(pre)
    /\ StickyFields(svc) = StickyFields(pre)

Q1 == Request(XmlUrls[1], XML_TIMEOUT)

Q2 == Request(XmlUrls[2], XML_TIMEOUT)

QH == Request(DATA_SOURCE_URL, HTML_TIMEOUT)

\* C1: every call of getRaceState, whatever the fetch outcomes and bodies,
\* returns a well-formed RaceState and raises nothing.  (Fails: an accepted,
\* well-formed XML text leaves soup None and soup.find_all raises.)
C1_NeverRaises == Called => Returned /\ WellFormed(ret.value)

C3_FetchSucceeded ==
    Called /\ (XmlParsed \/ HtmlStatusIn(200..299)) =>
        /\ Returned
        /\ Sess.source_ok = TRUE
        /\ StickyFields(svc) = StickyFields(UpdateCache(pre, cur))
        /\ StickyOf(ret.value) = Shown(svc)

Undetermined(v) == v \in {None, Some(<<>>)}

\* C4: a call that returns without having determined the name, the flag or
\* the remaining time shows the value the call before it determined.
\* (Fails: what an XML call extracts is lost when it raises.)
C4_Sticky ==
    [][ret'.kind = "return" =>
          /\ (~Undetermined(cur.session_name) /\ Undetermined(cur'.session_name)
                => ret'.value.session.name = cur.session_name[1])
          /\ (~Undetermined(cur.flag) /\ Undetermined(cur'.flag)
                => ret'.value.session.flag = cur.flag[1])
          /\ (cur.remaining # None /\ cur'.remaining = None
                => ret'.value.session.remaining = cur.remaining)]_vars

Refused(x) ==
    ~(/\ x.kind = "response"
      /\ x.status = 200
      /\ StartsWith(LStrip(XmlFeed[x.text].head), <<"<","?","x","m","l">>))

\* C6: the XML-first service issues its requests in the order candidate 1,
\* candidate 2, HTML page; when both candidates are refused it issues all
\* three, no XML row is appended and the cars of the RaceState it returns
\* are those of the HTML document alone.
C6_FetchOrder ==
    module = "main" /\ Called =>
        /\ log \in {<<Q1>>, <<Q1, Q2>>, <<Q1, QH>>, <<Q1, Q2, QH>>}
        /\ (Refused(net.x1) /\ Refused(net.x2) =>
              /\ log = <<Q1, Q2, QH>>
              /\ "xml" \notin contrib
              /\ (Returned => Cars = HtmlRowsOfCall))

C6_Witness ==
    /\ module = "main" /\ Returned
    /\ net.x1.kind = "response" /\ net.x1.status = 404
    /\ net.x2.kind = "error"
    /\ log = <<Q1, Q2, QH>>
    /\ Cars # <<>> /\ contrib = {"html"}

\* C7: when the accepted XML text does not parse, the XML-first service
\* fetches the HTML page and the outcome is that of the HTML path: the rows
\* of the HTML document with source_ok true, or the total-failure outcome
\* when the HTML GET fails; nothing is raised.  (Fails: scraping the HTML
\* rows raises when _parse_lap_time does.)
C7_MalformedXml ==
    module = "main" /\ Called /\ XmlMalformed =>
        /\ Returned
        /\ HtmlRequests(log) = <<QH>>
        /\ IF HtmlRaised \/ HtmlStatusIn(400..599)
           THEN TotalFailureOutcome
           ELSE /\ Cars = HtmlRows[net.r.doc]
                /\ Sess.source_ok = TRUE
                /\ contrib \subseteq {"html"}

\* C8: an XML text that is accepted and parsed but holds no car row with a
\* number gives a returned RaceState with no cars and source_ok true, and no
\* HTML request.  (Fails: the call raises.)
C8_XmlNoRows ==
    module = "main" /\ Called /\ XmlParsed /\ XmlRowsOfCall = <<>> =>
        /\ Returned
        /\ Cars = <<>>
        /\ Sess.source_ok = TRUE
        /\ HtmlRequests(log) = <<>>

\* C9: on both paths the rows without a car number are left out and the
\* rows with one are all emitted.  (Fails on the XML path: the call raises
\* and emits none of the numbered nodes.)
C9_RowFilter ==
    Called =>
        /\ (Returned => \A i \in 1..Len(Cars) : Cars[i].num # <<>>)
        /\ (XmlParsed => Returned /\ Cars = XmlRowsOfCall)
        /\ (~XmlParsed /\ HtmlStatusIn(200..299) =>
               Returned /\ Cars = HtmlRowsOfCall)

SameEmitted(a, b) ==
    /\ a.kind = b.kind
    /\ a.kind = "return" =>
          /\ a.value.cars = b.value.cars
          /\ StickyOf(a.value) = StickyOf(b.value)

\* C10: a call answered as the call before it was has the same outcome, the
\* same cars and the same name, flag and remaining; only the clock may
\* differ.
C10_Idempotent == [][repeat' => SameEmitted(ret, ret')]_vars

C10_Witness ==
    /\ repeat /\ Returned /\ Sess.source_ok
    /\ Cars # <<>> /\ Sess.clock > 0

(* ------------------- _parse_lap_time on its own ----------------------- *)

MaxMinuteDigits == 2

MaxSecondDigits == 3

MaxFractionDigits == 4

\* the runs of at most n of the digits 0 and 7
RECURSIVE DigitRuns(_)
DigitRuns(n) ==
    IF n = 0 THEN {<<>>}
    ELSE DigitRuns(n - 1)
         \cup {<<d>> \o run : d \in {"0", "7"},
                              run \in {x \in DigitRuns(n - 1) : Len(x) = n - 1}}

\* texts put together from a minutes prefix (or none), seconds, a separator
\* with a fraction (or none) and surrounding whitespace
LapParts ==
    [kind     : {"parts"},
     minutes  : {None} \cup {Some(x) : x \in DigitRuns(MaxMinuteDigits)},
     seconds  : DigitRuns(MaxSecondDigits),
     sep      : {None, Some("."), Some(",")},
     fraction : DigitRuns(MaxFractionDigits),
     pad      : {<<>>, <<" ","\n">>}]

PartsText(i) ==
    i.pad \o (IF i.minutes = None THEN <<>> ELSE i.minutes[1] \o <<":">>)
          \o i.seconds
          \o (IF i.sep = None THEN <<>> ELSE i.sep \o i.fraction)
          \o i.pad

\* texts that are a placeholder, alone or within whitespace
LapPlaceholders ==
    {<<>>, <<" ">>, <<"\t","\n">>} \cup LapSentinels \cup {<<" ","-"," ">>, <<"N","/","A","\n">>, <<"\t","N","A">>}

\* texts that are neither a placeholder nor a time
LapGarbage ==
    {<<"D","N","F">>, <<"n","a">>, <<"n","/","a">>, <<"-","-">>, <<"-","1">>, <<"1",":","2",":","3">>, <<"1",".","2",".","3">>, <<"1",";","2","3">>,
     <<"1"," ","2">>, <<"1",":"," ","2","3">>, <<"+","1">>, <<"1",":","2","3",".","4","s">>, <<"1","2",":","3","4",":","5","6",".","7","8","9">>}

\* times whose minutes reach the float limit
LapHuge ==
    {FloatLimitDiv60 \o <<":","1","2">>,
     FloatLimitDiv60 \o <<":","9","9",".","9">>,
     <<"0">> \o FloatLimitDiv60 \o <<":","1","2">>,
     FloatLimitDiv60 \o <<"0",":","0","0">>,
     [i \in 1..Len(FloatLimitDiv60) |-> "9"] \o <<":","0","0",",","0","0","0">>}

LapInputs ==
    {i \in LapParts : i.sep = None => i.fraction = <<>>}
    \cup {[kind |-> "placeholder", txt |-> t] : t \in LapPlaceholders}
    \cup {[kind |-> "garbage", txt |-> t] : t \in LapGarbage}
    \cup {[kind |-> "huge", txt |-> t] : t \in LapHuge}

LapText(i) == IF i.kind = "parts" THEN PartsText(i) ELSE i.txt

\* a caller passes the text to _parse_lap_time
ParseLap ==
    /\ lap.kind = "text"
    /\ lap' = [kind |-> "call", input |-> lap.input, txt |-> lap.txt,
               out |-> _parse_lap_time(lap.txt)]
    /\ UNCHANGED <<module, svc, now, net, ret, log, pre, cur, contrib, repeat,
                   tab>>

\* a service that is never called
Idle ==
    /\ module = "main"
    /\ svc = NewService
    /\ now = 0
    /\ net = Call(NoXml, NoXml, NoHtml)
    /\ ret = [kind |-> "none"]
    /\ log = <<>>
    /\ pre = NewService
    /\ cur = NoMeta
    /\ contrib = {}
    /\ repeat = FALSE

\* any of the texts
LapInit ==
    /\ Idle
    /\ tab = [kind |-> "none"]
    /\ \E i \in LapInputs :
         lap = [kind |-> "text", input |-> i, txt |-> LapText(i)]

LapNext == ParseLap

SpecLap == LapInit /\ [][LapNext]_vars

\* the input is within the grammar [minutes ':'] 1-2 digit seconds
\* [('.' or ',') 1-3 digit fraction]
InGrammar(i) ==
    /\ i.kind \in {"parts", "huge"}
    /\ i.kind = "parts" =>
         /\ i.minutes # None => Len(i.minutes[1]) >= 1
         /\ Len(i.seconds) \in 1..2
         /\ i.sep # None => Len(i.fraction) \in 1..3

\* the fraction read as milliseconds: its digits right-padded with zeros to
\* three
FractionMillis(f) ==
    IF f = <<>> THEN 0
    ELSE ToInt(f) * (IF Len(f) = 1 THEN 100 ELSE IF Len(f) = 2 THEN 10 ELSE 1)

\* minutes * 60 + seconds + millis / 1000 of an input within the grammar,
\* in milliseconds
LapSeconds(i) ==
    (IF i.minutes = None THEN 0 ELSE ToInt(i.minutes[1])) * 60000
    + ToInt(i.seconds) * 1000
    + (IF i.sep = None THEN 0 ELSE FractionMillis(i.fraction))

\* what C11 says of the calls that return: its values alone
LapValuesAsStated ==
    lap.kind = "call" /\ ~lap.out.raised =>
        IF ~InGrammar(lap.input) THEN lap.out.value = None
        ELSE lap.input.kind = "parts" =>
                 lap.out.value = Some(LapSeconds(lap.input))

\* C11: _parse_lap_time never raises; it returns None for an empty text, a
\* placeholder and a text outside the grammar, and otherwise minutes * 60 +
\* seconds + millis / 1000 with the fraction right-padded to three digits
\* (whitespace around the text left aside).
C11_LapTime ==
    /\ lap.kind = "call" => ~lap.out.raised
    /\ LapValuesAsStated

(* ---------------- scraping a table under two header rows -------------- *)

MaxHeaderCols == 3

ColumnLabels == {<<"N","u","m">>, <<"C","a","r">>, <<"T","e","a","m">>, <<"D","r","i","v","e","r","s">>, <<"D","r","i","v","e","r">>, <<"L","a","s","t"," ","l","a","p">>}

\* the header rows of at most n columns
RECURSIVE HeaderRuns(_)
HeaderRuns(n) ==
    IF n = 0 THEN {<<>>}
    ELSE HeaderRuns(n - 1)
         \cup {<<l>> \o h : l \in ColumnLabels,
                            h \in {x \in HeaderRuns(n - 1) : Len(x) = n - 1}}

\* the header rows that have a column labelled Drivers
DriversHeaders ==
    {h \in HeaderRuns(MaxHeaderCols) : <<"D","r","i","v","e","r","s">> \in Range(h)}

\* the header row with Pilotes where it had Drivers
Relabel(h) ==
    [i \in 1..Len(h) |-> IF h[i] = <<"D","r","i","v","e","r","s">> THEN <<"P","i","l","o","t","e","s">> ELSE h[i]]

\* what the two data rows hold in the column of a label
CellOf(label, row) ==
    IF label = <<"N","u","m">> THEN (IF row = 1 THEN <<"1","2">> ELSE <<>>)
    ELSE IF label = <<"C","a","r">> THEN (IF row = 1 THEN <<"7">> ELSE <<"8">>)
    ELSE IF label = <<"T","e","a","m">> THEN (IF row = 1 THEN <<"A","l","p","h","a">> ELSE <<>>)
    ELSE IF label = <<"D","r","i","v","e","r","s">> THEN (IF row = 1 THEN <<"A","n","n">> ELSE <<"C","y">>)
    ELSE IF label = <<"D","r","i","v","e","r">> THEN (IF row = 1 THEN <<"B","o","b">> ELSE <<"D","e","e">>)
    ELSE (IF row = 1 THEN <<"1",":","2","3",".","4","5","6">> ELSE <<"D","N","F">>)

\* the timing table of a header row h, its data rows laid out by the labels
\* of the columns of g
TimingTable(h, g) ==
    <<[i \in 1..Len(h) |-> Th(h[i])],
      [i \in 1..Len(g) |-> Td(CellOf(g[i], 1))],
      [i \in 1..Len(g) |-> Td(CellOf(g[i], 2))]>>

\* the page of the table, after a layout table or alone
TimingPage(lead, table) ==
    IF lead THEN <<LayoutTable, table>> ELSE <<table>>

\* the cars scraped from the page's main live table
Scrape(page) == TableCars(FindTable(page))

\* any table with a Drivers column
TabInit ==
    /\ Idle
    /\ lap = [kind |-> "none"]
    /\ \E h \in DriversHeaders, lead \in BOOLEAN :
         tab = [kind |-> "table", header |-> h, lead |-> lead]

\* the table is scraped as it is and with the header label replaced
ScrapeBoth ==
    /\ tab.kind = "table"
    /\ tab' = [kind |-> "scraped", header |-> tab.header, lead |-> tab.lead,
               en |-> Scrape(TimingPage(tab.lead,
                                        TimingTable(tab.header, tab.header))),
               fr |-> Scrape(TimingPage(tab.lead,
                                        TimingTable(Relabel(tab.header),
                                                    tab.header)))]
    /\ UNCHANGED <<module, svc, now, net, ret, log, pre, cur, contrib, repeat,
                   lap>>

TabNext == ScrapeBoth

SpecTab == TabInit /\ [][TabNext]_vars

\* C12: with the header label Drivers replaced by Pilotes and nothing else
\* changed, the cars scraped from a table are the same, driver fields
\* included.
C12_Pilotes == tab.kind = "scraped" => tab.fr = tab.en

\* the header row has a label the header detection knows besides Drivers
OtherHeaderLabel ==
    \E i \in 1..Len(tab.header) :
        /\ tab.header[i] # <<"D","r","i","v","e","r","s">>
        /\ Lower(tab.header[i]) \in HeaderLabels

\* where the replacement does keep the cars
PilotesWhereKept ==
    tab.kind = "scraped" /\ OtherHeaderLabel
        /\ <<"D","r","i","v","e","r">> \notin Range(tab.header) => tab.fr = tab.en

(* ------------------------- the cache, over calls ---------------------- *)

\* C13: in both modules, after any sequence of calls, the cache fields
\* _last_session_name, _last_flag and _last_remaining are None as __init__
\* left them, and every RaceState returned has the name '2CVRT', the flag ''
\* and no remaining time.
C13_CacheNeverSet ==
    /\ StickyFields(svc) = <<None, None, None>>
    /\ StickyFields(pre) = <<None, None, None>>
    /\ (Returned => StickyOf(ret.value) = <<<<"2","C","V","R","T">>, <<>>, None>>)

\* a call read a name, a flag and a remaining time from an XML document, and
\* the cache has none of them
C13_Witness ==
    /\ module = "main" /\ Called /\ XmlParsed
    /\ cur.session_name \notin {None, Some(<<>>)}
    /\ cur.flag \notin {None, Some(<<>>)}
    /\ cur.remaining # None
    /\ svc._last_session_name = None
    /\ svc._last_flag = None
    /\ svc._last_remaining = None

====
